---- MODULE Spec2Model ----
(***************************************************************************)
(* Session-gated note repository (package main of nous, and repo.UserRepo) *)
(*                                                                         *)
(* Two specifications:                                                     *)
(*   Spec      the HTTP pipeline: ensureAuthed in front of the dispatch    *)
(*             handlers, which call the note store;                        *)
(*   SpecRepo  concurrent callers of repo.UserRepo (Exists, Add, Get),     *)
(*             each under a request context that may be cancelled.         *)
(***************************************************************************)
EXTENDS Integers, Sequences, FiniteSets, TLC

\* ------------------------------------------------------------------ bounds
\* Requests received in one behaviour of Spec; all of them may be in flight
\* at the same time.
MaxRequests == 3
\* The clock (hours, UTC) runs from StartTime to MaxTime.
StartTime == 13
MaxTime == 14
\* Notes in the table when the process starts.
MaxStored == 2
\* Highest calendar day a /t/{date} request may name.
MaxDay == 1
\* Concurrent callers of the user repository in SpecRepo.
NumCallers == 2

\* ------------------------------------------------------- program constants
\* time.Parse(time.RFC3339, date+"T00:00:00+11:00"): a day has 24 hours and
\* the zone is 11 hours east of UTC.
HoursPerDay == 24
ZoneOffset == 11

VARIABLES
  notes,      \* the notes table: id -> [body, tags, done, created_at]
  nextId,     \* the notes table's serial
  now,        \* time.Now(), in hours
  inflight,   \* route -> number of requests the gate passed, handler not yet run
  served,     \* requests received so far
  authed,     \* history: requests getUserFromSession resolved to a user
  ran,        \* history: handler invocations (next.ServeHTTP calls)
  raced,      \* history: a toggle ran while another toggle request was in flight
  toggles,    \* history: id -> number of ToggleNoteHandler calls that succeeded
  initDone,   \* history: id -> the note's done flag when it entered the model
  deleted,    \* history: ids whose DeleteNoteHandler call answered with the redirect
  last,       \* what the most recent gate or handler step did
  users,      \* the users table: sequence of rows [id, username, auth_id]
  caller      \* SpecRepo: caller -> its position, context and last result

vars == <<notes, nextId, now, inflight, served, authed, ran, raced, toggles, initDone,
          deleted, last, users, caller>>
pipeVars == <<notes, nextId, now, inflight, served, authed, ran, raced, toggles, initDone,
              deleted, last>>

\* ------------------------------------------------------------------ inputs
Routes == {"/", "/t/{date}", "/submit", "/search", "/public/", "/note",
           "/note/{id}/delete", "/note/toggle"}
Cookies == {"absent", "malformed", "no_user_id", "nonstring", "known", "ghost"}
KnownAuthId == "auth0|known"
GhostAuthId == "auth0|gone"
Bodies == {"", "milk"}
TagInputs == {"errand"}
Queries == {"", "MILK", "errand", "eggs"}
\* The {date} path segment: a calendar day that parses, or text that does not.
DateInputs == {[valid |-> TRUE, day |-> d] : d \in 0..MaxDay}
              \cup {[valid |-> FALSE, day |-> 0]}
NoErr == "nil"

\* ---------------------------------------------------------- session gate
\* sessions.CookieStore.Get: a session is always returned; when the cookie is
\* missing the session is new, when it does not decode the error is set and
\* the session is new as well.
StoreGet(cookie) ==
  CASE cookie = "absent"     -> [err |-> NoErr, Values |-> <<>>]
    [] cookie = "malformed"  -> [err |-> "securecookie: the value is not valid", Values |-> <<>>]
    [] cookie = "no_user_id" -> [err |-> NoErr, Values |-> [other |-> [type |-> "string", val |-> "x"]]]
    [] cookie = "nonstring"  -> [err |-> NoErr, Values |-> [user_id |-> [type |-> "int", val |-> "7"]]]
    [] cookie = "known"      -> [err |-> NoErr, Values |-> [user_id |-> [type |-> "string", val |-> KnownAuthId]]]
    [] cookie = "ghost"      -> [err |-> NoErr, Values |-> [user_id |-> [type |-> "string", val |-> GhostAuthId]]]

\* sessionState.Values["user_id"].(string)
AssertString(Values) ==
  IF "user_id" \in DOMAIN Values /\ Values["user_id"].type = "string"
  THEN [val |-> Values["user_id"].val, ok |-> TRUE]
  ELSE [val |-> "", ok |-> FALSE]

ZeroUser == [id |-> 0, username |-> "", auth_id |-> ""]

\* userRepo.Get(r.Context(), urepo.Auth0ID(userId)): the row with that auth id,
\* or an error and the zero User.
LookupByAuthId(rows, authId) ==
  IF \E i \in 1..Len(rows) : rows[i].auth_id = authId
  THEN [err |-> NoErr,
        user |-> rows[CHOOSE i \in 1..Len(rows) : rows[i].auth_id = authId]]
  ELSE [err |-> "no rows in result set", user |-> ZeroUser]

\* Variant of getUserFromSession that takes a session that failed to decode
\* for an authenticated one.
getUserFromSessionOkOnError(cookie, rows) ==
  LET sessionState == StoreGet(cookie)
      a == AssertString(sessionState.Values)
  IN  IF a.ok \/ sessionState.err # NoErr
      THEN [user |-> LookupByAuthId(rows, a.val).user, ok |-> TRUE]
      ELSE [user |-> ZeroUser, ok |-> FALSE]

\* The error of Store.Get is printed and the error of userRepo.Get is dropped.
getUserFromSession(cookie, rows) ==
  LET sessionState == StoreGet(cookie)
      a == AssertString(sessionState.Values)
  IN  IF a.ok
      THEN [user |-> LookupByAuthId(rows, a.val).user, ok |-> TRUE]
      ELSE [user |-> ZeroUser, ok |-> FALSE]

Redirect(to, status) == [kind |-> "redirect", to |-> to, status |-> status]
Render(tmpl) == [kind |-> "render", to |-> tmpl, status |-> 200]
HttpError(msg, status) == [kind |-> "error", to |-> msg, status |-> status]
Content(path) == [kind |-> "content", to |-> path, status |-> 200]

\* Variant of ensureAuthed that runs the next handler whatever ok is.
ensureAuthedAlwaysNext(ok) ==
  [next |-> TRUE, writes |-> <<>>]

\* The middleware: the next handler runs, or the request is redirected.
ensureAuthed(ok) ==
  IF ok
  THEN [next |-> TRUE, writes |-> <<>>]
  ELSE [next |-> FALSE, writes |-> <<Redirect("/login", 307)>>]

\* ------------------------------------------------------------- note store
\* repo.NoteRepo is not among the sources; its operations follow the store
\* contract: Add, Get, GetAllSince, Search, ToggleDone, Delete. Every operation
\* is one statement against the notes table; fail is the store being
\* unavailable.
DB == [notes |-> notes, nextId |-> nextId]

NoteAdd(db, body, tags, t, fail) ==
  IF fail THEN [err |-> "StoreUnavailableError", db |-> db, rows |-> <<>>]
  ELSE IF body = "" THEN [err |-> "ValidationError", db |-> db, rows |-> <<>>]
  ELSE [err |-> NoErr,
        db |-> [notes |-> db.notes @@ (db.nextId :>
                   [body |-> body, tags |-> tags, done |-> FALSE, created_at |-> t]),
                nextId |-> db.nextId + 1],
        rows |-> <<>>]

NoteGet(db, id, fail) ==
  IF fail THEN [err |-> "StoreUnavailableError", db |-> db, rows |-> <<>>]
  ELSE IF id \notin DOMAIN db.notes THEN [err |-> "NotFoundError", db |-> db, rows |-> <<>>]
  ELSE [err |-> NoErr, db |-> db, rows |-> <<id>>]

\* Most recent first, ties by id ascending.
Before(db, a, b) ==
  \/ db.notes[a].created_at > db.notes[b].created_at
  \/ db.notes[a].created_at = db.notes[b].created_at /\ a < b

RECURSIVE Ordered(_, _)
Ordered(db, ids) ==
  IF ids = {} THEN <<>>
  ELSE LET first == CHOOSE a \in ids : \A b \in ids \ {a} : Before(db, a, b)
       IN  <<first>> \o Ordered(db, ids \ {first})

NoteGetAllSince(db, t, fail) ==
  IF fail THEN [err |-> "StoreUnavailableError", db |-> db, rows |-> <<>>]
  ELSE [err |-> NoErr, db |-> db,
        rows |-> Ordered(db, {id \in DOMAIN db.notes : db.notes[id].created_at >= t})]

Lower(s) == IF s = "MILK" THEN "milk" ELSE s

NoteSearch(db, query, fail) ==
  IF fail THEN [err |-> "StoreUnavailableError", db |-> db, rows |-> <<>>]
  ELSE IF query = "" THEN [err |-> NoErr, db |-> db, rows |-> <<>>]
  ELSE [err |-> NoErr, db |-> db,
        rows |-> Ordered(db, {id \in DOMAIN db.notes :
                    \/ Lower(db.notes[id].body) = Lower(query)
                    \/ Lower(db.notes[id].tags) = Lower(query)})]

\* One UPDATE that sets done to its negation.
NoteToggleDone(db, id, fail) ==
  IF fail THEN [err |-> "StoreUnavailableError", db |-> db, rows |-> <<>>]
  ELSE IF id \notin DOMAIN db.notes THEN [err |-> "NotFoundError", db |-> db, rows |-> <<>>]
  ELSE [err |-> NoErr,
        db |-> [db EXCEPT !.notes[id].done = ~db.notes[id].done],
        rows |-> <<>>]

NoteDelete(db, id, fail) ==
  IF fail THEN [err |-> "StoreUnavailableError", db |-> db, rows |-> <<>>]
  ELSE IF id \notin DOMAIN db.notes THEN [err |-> "NotFoundError", db |-> db, rows |-> <<>>]
  ELSE [err |-> NoErr,
        db |-> [db EXCEPT !.notes = [i \in DOMAIN db.notes \ {id} |-> db.notes[i]]],
        rows |-> <<>>]

\* ---------------------------------------------------------------- handlers
\* What a handler did: the writes to the ResponseWriter in order, the note
\* store operations it invoked, the lines it logged, the store it left, the
\* error of its store call or parse, and the rows and timestamp it used.
Outcome(writes, ops, logged, err, db, rows, t) ==
  [writes |-> writes, ops |-> ops, logged |-> logged, err |-> err, db |-> db,
   rows |-> rows, t |-> t]

\* http.Error with the fixed message, then Logger.Println(err.Error()).
handleUnexpectedError(err) ==
  [writes |-> <<HttpError("There was an unexpected error", 500)>>,
   logged |-> <<err>>]

\* Templates[tmpl].Execute: on failure part of the page may be out already.
RenderTemplate(tmpl, tfail) ==
  IF tfail
  THEN [writes |-> <<[kind |-> "partial", to |-> tmpl, status |-> 200]>>
                   \o handleUnexpectedError("template: execute").writes,
        logged |-> handleUnexpectedError("template: execute").logged]
  ELSE [writes |-> <<Render(tmpl)>>, logged |-> <<>>]

\* time.Parse(time.RFC3339, date+"T00:00:00+11:00")
ParseDate(date) ==
  IF date.valid
  THEN [err |-> NoErr, t |-> date.day * HoursPerDay - ZoneOffset]
  ELSE [err |-> "parsing time: cannot parse", t |-> 0]

HomeSinceHandler(db, date, fail, tfail) ==
  LET parsed == ParseDate(date) IN
  IF parsed.err # NoErr
  THEN LET h == handleUnexpectedError(parsed.err)
       IN  Outcome(h.writes, <<>>, h.logged, parsed.err, db, <<>>, 0)
  ELSE LET res == NoteGetAllSince(db, parsed.t, fail) IN
       IF res.err # NoErr
       THEN LET h == handleUnexpectedError(res.err)
            IN  Outcome(h.writes, <<"GetAllSince">>, h.logged, res.err, res.db, <<>>, parsed.t)
       ELSE LET p == RenderTemplate("home", tfail)
            IN  Outcome(p.writes, <<"GetAllSince">>, p.logged, NoErr, res.db, res.rows, parsed.t)

\* Variant of HomeHandler that asks for the notes since the start of the
\* current day (+11:00) instead of since time.Now().
HomeHandlerStartOfDay(db, t, fail, tfail) ==
  LET sod == t - ((t + ZoneOffset) % HoursPerDay)
      res == NoteGetAllSince(db, sod, fail) IN
  IF res.err # NoErr
  THEN LET h == handleUnexpectedError(res.err)
       IN  Outcome(h.writes, <<"GetAllSince">>, h.logged, res.err, res.db, <<>>, sod)
  ELSE LET p == RenderTemplate("home", tfail)
       IN  Outcome(p.writes, <<"GetAllSince">>, p.logged, NoErr, res.db, res.rows, sod)

\* t is time.Now() at the call.
HomeHandler(db, t, fail, tfail) ==
  LET res == NoteGetAllSince(db, t, fail) IN
  IF res.err # NoErr
  THEN LET h == handleUnexpectedError(res.err)
       IN  Outcome(h.writes, <<"GetAllSince">>, h.logged, res.err, res.db, <<>>, t)
  ELSE LET p == RenderTemplate("home", tfail)
       IN  Outcome(p.writes, <<"GetAllSince">>, p.logged, NoErr, res.db, res.rows, t)

\* Variant of SubmitHandler that reads the notes before rendering the form.
SubmitHandlerWithFetch(db, tfail) ==
  LET res == NoteGetAllSince(db, 0, FALSE)
      p == RenderTemplate("submit", tfail)
  IN  Outcome(p.writes, <<"GetAllSince">>, p.logged, NoErr, res.db, <<>>, 0)

SubmitHandler(db, tfail) ==
  LET p == RenderTemplate("submit", tfail)
  IN  Outcome(p.writes, <<>>, p.logged, NoErr, db, <<>>, 0)

\* Variant of ToggleNoteHandler that issues the toggle twice.
ToggleNoteHandlerTwice(db, id, fail) ==
  LET first == NoteToggleDone(db, id, fail)
      res == NoteToggleDone(first.db, id, fail) IN
  IF res.err # NoErr
  THEN LET h == handleUnexpectedError(res.err)
       IN  Outcome(h.writes, <<"ToggleDone", "ToggleDone">>, h.logged, res.err, res.db, <<>>, 0)
  ELSE Outcome(<<Redirect("/#id", 303)>>, <<"ToggleDone", "ToggleDone">>, <<>>, NoErr, res.db, <<>>, 0)

ToggleNoteHandler(db, id, fail) ==
  LET res == NoteToggleDone(db, id, fail) IN
  IF res.err # NoErr
  THEN LET h == handleUnexpectedError(res.err)
       IN  Outcome(h.writes, <<"ToggleDone">>, h.logged, res.err, res.db, <<>>, 0)
  ELSE Outcome(<<Redirect("/#id", 303)>>, <<"ToggleDone">>, <<>>, NoErr, res.db, <<>>, 0)

\* Variant of DeleteNoteHandler that drops the error of Delete.
DeleteNoteHandlerErrorDropped(db, id, fail) ==
  LET res == NoteDelete(db, id, fail)
  IN  Outcome(<<Redirect("/", 303)>>, <<"Delete">>, <<>>, NoErr, res.db, <<>>, 0)

DeleteNoteHandler(db, id, fail) ==
  LET res == NoteDelete(db, id, fail) IN
  IF res.err # NoErr
  THEN LET h == handleUnexpectedError(res.err)
       IN  Outcome(h.writes, <<"Delete">>, h.logged, res.err, res.db, <<>>, 0)
  ELSE Outcome(<<Redirect("/", 303)>>, <<"Delete">>, <<>>, NoErr, res.db, <<>>, 0)

\* Variant of AddNoteHandler without the return after handleUnexpectedError.
AddNoteHandlerNoReturn(db, t, body, tags, fail) ==
  LET res == NoteAdd(db, body, tags, t, fail)
      h == handleUnexpectedError(res.err) IN
  IF res.err # NoErr
  THEN Outcome(h.writes \o <<Redirect("/", 303)>>, <<"Add">>, h.logged, res.err, res.db, <<>>, 0)
  ELSE Outcome(<<Redirect("/", 303)>>, <<"Add">>, <<>>, NoErr, res.db, <<>>, 0)

AddNoteHandler(db, t, body, tags, fail) ==
  LET res == NoteAdd(db, body, tags, t, fail) IN
  IF res.err # NoErr
  THEN LET h == handleUnexpectedError(res.err)
       IN  Outcome(h.writes, <<"Add">>, h.logged, res.err, res.db, <<>>, 0)
  ELSE Outcome(<<Redirect("/", 303)>>, <<"Add">>, <<>>, NoErr, res.db, <<>>, 0)

SearchHandler(db, query, fail, tfail) ==
  LET res == NoteSearch(db, query, fail) IN
  IF res.err # NoErr
  THEN LET h == handleUnexpectedError(res.err)
       IN  Outcome(h.writes, <<"Search">>, h.logged, res.err, res.db, <<>>, 0)
  ELSE LET p == RenderTemplate("home", tfail)
       IN  Outcome(p.writes, <<"Search">>, p.logged, NoErr, res.db, res.rows, 0)

\* os.Open of the path, then http.ServeContent.
serveResources(db, exists) ==
  IF ~exists
  THEN Outcome(<<HttpError("request uri", 404)>>, <<>>, <<>>, NoErr, db, <<>>, 0)
  ELSE Outcome(<<Content("path")>>, <<>>, <<>>, NoErr, db, <<>>, 0)

\* ------------------------------------------------------------ the pipeline
NoDate == [valid |-> FALSE, day |-> 0]

Step(step, route, cookie, ok, next, out, id, date) ==
  [step |-> step, route |-> route, cookie |-> cookie, ok |-> ok, next |-> next,
   writes |-> out.writes, ops |-> out.ops, logged |-> out.logged, err |-> out.err,
   rows |-> out.rows, t |-> out.t, id |-> id, date |-> date, at |-> now]

InFlightTotal == inflight["/"] + inflight["/t/{date}"] + inflight["/submit"]
                 + inflight["/search"] + inflight["/public/"] + inflight["/note"]
                 + inflight["/note/{id}/delete"] + inflight["/note/toggle"]

\* A request for a route of authedRouter arrives and ensureAuthed runs.
Gate(route, cookie) ==
  /\ served < MaxRequests
  /\ served' = served + 1
  /\ LET g == getUserFromSession(cookie, users)
         e == ensureAuthed(g.ok)
         out == Outcome(e.writes, <<>>, <<>>, NoErr, DB, <<>>, 0)
     IN  /\ inflight' = IF e.next THEN [inflight EXCEPT ![route] = @ + 1] ELSE inflight
         /\ last' = Step("gate", route, cookie, g.ok, e.next, out, 0, NoDate)
         /\ authed' = IF g.ok THEN authed + 1 ELSE authed
  /\ UNCHANGED <<notes, nextId, now, ran, raced, toggles, initDone, deleted, users, caller>>

\* next.ServeHTTP(w, r) for a request the gate passed.
Serve(route, out, id, date) ==
  /\ inflight[route] > 0
  /\ inflight' = [inflight EXCEPT ![route] = @ - 1]
  /\ notes' = out.db.notes
  /\ nextId' = out.db.nextId
  /\ last' = Step("handler", route, "", TRUE, TRUE, out, id, date)
  /\ ran' = ran + 1
  /\ UNCHANGED <<now, served, authed, users, caller>>

DoHome ==
  \E fail \in BOOLEAN, tfail \in BOOLEAN :
    /\ Serve("/", HomeHandler(DB, now, fail, tfail), 0, NoDate)
    /\ UNCHANGED <<toggles, initDone, deleted, raced>>

DoHomeSince ==
  \E date \in DateInputs, fail \in BOOLEAN, tfail \in BOOLEAN :
    /\ Serve("/t/{date}", HomeSinceHandler(DB, date, fail, tfail), 0, date)
    /\ UNCHANGED <<toggles, initDone, deleted, raced>>

DoSubmit ==
  \E tfail \in BOOLEAN :
    /\ Serve("/submit", SubmitHandler(DB, tfail), 0, NoDate)
    /\ UNCHANGED <<toggles, initDone, deleted, raced>>

DoSearch ==
  \E query \in Queries, fail \in BOOLEAN, tfail \in BOOLEAN :
    /\ Serve("/search", SearchHandler(DB, query, fail, tfail), 0, NoDate)
    /\ UNCHANGED <<toggles, initDone, deleted, raced>>

DoPublic ==
  \E exists \in BOOLEAN :
    /\ Serve("/public/", serveResources(DB, exists), 0, NoDate)
    /\ UNCHANGED <<toggles, initDone, deleted, raced>>

DoAddNote ==
  \E body \in Bodies, tags \in TagInputs, fail \in BOOLEAN :
    LET out == AddNoteHandler(DB, now, body, tags, fail) IN
    /\ Serve("/note", out, 0, NoDate)
    /\ toggles' = IF out.err = NoErr THEN toggles @@ (nextId :> 0) ELSE toggles
    /\ initDone' = IF out.err = NoErr THEN initDone @@ (nextId :> FALSE) ELSE initDone
    /\ UNCHANGED <<deleted, raced>>

DoDeleteNote ==
  \E id \in 1..nextId, fail \in BOOLEAN :
    LET out == DeleteNoteHandler(DB, id, fail) IN
    /\ Serve("/note/{id}/delete", out, id, NoDate)
    /\ deleted' = IF out.writes = <<Redirect("/", 303)>> THEN deleted \cup {id} ELSE deleted
    /\ UNCHANGED <<toggles, initDone, raced>>

DoToggleNote ==
  \E id \in 1..nextId, fail \in BOOLEAN :
    LET out == ToggleNoteHandler(DB, id, fail) IN
    /\ Serve("/note/toggle", out, id, NoDate)
    /\ toggles' = IF out.err = NoErr THEN [toggles EXCEPT ![id] = @ + 1] ELSE toggles
    /\ raced' = (raced \/ inflight["/note/toggle"] >= 2)
    /\ UNCHANGED <<initDone, deleted>>

\* Time passes.
Tick ==
  /\ now < MaxTime
  /\ now' = now + 1
  /\ UNCHANGED <<notes, nextId, inflight, served, authed, ran, raced, toggles, initDone,
               deleted, last, users, caller>>

Callers == 1..NumCallers
AuthIds == {KnownAuthId, GhostAuthId}

IdleCaller == [pc |-> "idle", authId |-> "", id |-> 0, ctxDone |-> FALSE, hit |-> FALSE,
               err |-> NoErr, exists |-> FALSE, user |-> ZeroUser]
IdleCallers == [c \in Callers |-> IdleCaller]

\* The notes table outlives the process: it starts with the notes earlier
\* runs stored, one per hour up to StartTime, every second one done.
StoredNote(i) ==
  [body |-> "milk", tags |-> "errand", done |-> (i % 2 = 0),
   created_at |-> StartTime - (MaxStored - i)]

Init ==
  /\ notes = [i \in 1..MaxStored |-> StoredNote(i)]
  /\ nextId = MaxStored + 1
  /\ toggles = [i \in 1..MaxStored |-> 0]
  /\ initDone = [i \in 1..MaxStored |-> StoredNote(i).done]
  /\ now = StartTime
  /\ inflight = [r \in Routes |-> 0]
  /\ served = 0
  /\ authed = 0
  /\ ran = 0
  /\ raced = FALSE
  /\ deleted = {}
  /\ last = [step |-> "none", route |-> "", cookie |-> "", ok |-> FALSE, next |-> FALSE,
             writes |-> <<>>, ops |-> <<>>, logged |-> <<>>, err |-> NoErr,
             rows |-> <<>>, t |-> 0, id |-> 0, date |-> NoDate, at |-> StartTime]
  /\ users = <<[id |-> 1, username |-> "known", auth_id |-> KnownAuthId]>>
  /\ caller = IdleCallers

Next ==
  \/ \E route \in Routes, cookie \in Cookies : Gate(route, cookie)
  \/ DoHome
  \/ DoHomeSince
  \/ DoSubmit
  \/ DoSearch
  \/ DoPublic
  \/ DoAddNote
  \/ DoDeleteNote
  \/ DoToggleNote
  \/ Tick

Spec == Init /\ [][Next]_vars

\* --------------------------------------------------------- user repository
\* pgx returns the context's error for a statement whose context is done.
CtxErr(ctxDone) == IF ctxDone THEN "context canceled" ELSE NoErr

\* Get(ctx, id): the query is issued under context.TODO(), which is never
\* done, not under ctx.
UserRepoGet(ctxDone, rows, id) ==
  LET todoDone == FALSE IN
  IF CtxErr(todoDone) # NoErr THEN [err |-> CtxErr(todoDone), user |-> ZeroUser]
  ELSE IF \E i \in 1..Len(rows) : rows[i].id = id
  THEN LET row == rows[CHOOSE i \in 1..Len(rows) : rows[i].id = id]
       IN  [err |-> NoErr,
            user |-> [id |-> id, username |-> row.username, auth_id |-> row.auth_id]]
  ELSE [err |-> "no rows in result set", user |-> ZeroUser]

\* Exists(ctx, authId): SELECT EXISTS(...) under ctx.
UserRepoExists(ctxDone, rows, authId) ==
  IF CtxErr(ctxDone) # NoErr THEN [err |-> CtxErr(ctxDone), exists |-> FALSE]
  ELSE [err |-> NoErr, exists |-> \E i \in 1..Len(rows) : rows[i].auth_id = authId]

\* Add(ctx, username, authId): a plain INSERT under ctx; the id is the serial.
UserRepoAdd(ctxDone, rows, username, authId) ==
  IF CtxErr(ctxDone) # NoErr THEN [err |-> CtxErr(ctxDone), rows |-> rows]
  ELSE [err |-> NoErr,
        rows |-> Append(rows, [id |-> Len(rows) + 1, username |-> username,
                               auth_id |-> authId])]

\* A caller issues Exists; the statement is in flight until EndExists.
BeginExists(c, authId) ==
  /\ caller[c].pc = "idle"
  /\ caller' = [caller EXCEPT ![c].pc = "exists", ![c].authId = authId, ![c].hit = FALSE]
  /\ UNCHANGED <<users, pipeVars>>

EndExists(c) ==
  /\ caller[c].pc = "exists"
  /\ LET res == UserRepoExists(caller[c].ctxDone, users, caller[c].authId)
     IN  caller' = [caller EXCEPT ![c].pc = "checked", ![c].err = res.err,
                                  ![c].exists = res.exists]
  /\ UNCHANGED <<users, pipeVars>>

\* The registration flow calls Add only when Exists returned false.
BeginAdd(c) ==
  /\ caller[c].pc = "checked"
  /\ caller[c].err = NoErr
  /\ ~caller[c].exists
  /\ caller' = [caller EXCEPT ![c].pc = "add", ![c].hit = FALSE]
  /\ UNCHANGED <<users, pipeVars>>

EndAdd(c) ==
  /\ caller[c].pc = "add"
  /\ LET res == UserRepoAdd(caller[c].ctxDone, users, "name", caller[c].authId)
     IN  /\ users' = res.rows
         /\ caller' = [caller EXCEPT ![c].pc = "added", ![c].err = res.err]
  /\ UNCHANGED pipeVars

BeginGet(c, id) ==
  /\ caller[c].pc = "idle"
  /\ caller' = [caller EXCEPT ![c].pc = "get", ![c].id = id, ![c].hit = FALSE]
  /\ UNCHANGED <<users, pipeVars>>

EndGet(c) ==
  /\ caller[c].pc = "get"
  /\ LET res == UserRepoGet(caller[c].ctxDone, users, caller[c].id)
     IN  caller' = [caller EXCEPT ![c].pc = "got", ![c].err = res.err,
                                  ![c].user = res.user]
  /\ UNCHANGED <<users, pipeVars>>

\* The inbound request is cancelled or times out; hit records that a
\* statement of the caller was in flight at that moment.
Cancel(c) ==
  /\ ~caller[c].ctxDone
  /\ caller' = [caller EXCEPT ![c].ctxDone = TRUE,
                              ![c].hit = caller[c].pc \in {"exists", "add", "get"}]
  /\ UNCHANGED <<users, pipeVars>>

InitRepo ==
  /\ notes = <<>>
  /\ nextId = 1
  /\ now = StartTime
  /\ inflight = [r \in Routes |-> 0]
  /\ served = 0
  /\ authed = 0
  /\ ran = 0
  /\ raced = FALSE
  /\ toggles = <<>>
  /\ initDone = <<>>
  /\ deleted = {}
  /\ last = [step |-> "none", route |-> "", cookie |-> "", ok |-> FALSE, next |-> FALSE,
             writes |-> <<>>, ops |-> <<>>, logged |-> <<>>, err |-> NoErr,
             rows |-> <<>>, t |-> 0, id |-> 0, date |-> NoDate, at |-> StartTime]
  /\ users = <<>>
  /\ caller = IdleCallers

NextRepo ==
  \/ \E c \in Callers, a \in AuthIds : BeginExists(c, a)
  \/ \E c \in Callers : EndExists(c)
  \/ \E c \in Callers : BeginAdd(c)
  \/ \E c \in Callers : EndAdd(c)
  \/ \E c \in Callers, id \in 1..NumCallers : BeginGet(c, id)
  \/ \E c \in Callers : EndGet(c)
  \/ \E c \in Callers : Cancel(c)

SpecRepo == InitRepo /\ [][NextRepo]_vars

\* ------------------------------------------------------------------ claims
LoginRedirect == <<Redirect("/login", 307)>>
GenericFailure == <<HttpError("There was an unexpected error", 500)>>
StoreRoutes == {"/", "/t/{date}", "/search", "/note", "/note/{id}/delete", "/note/toggle"}
RowSet(rows) == {rows[i] : i \in 1..Len(rows)}
Answered(writes) ==
  \E i \in 1..Len(writes) : writes[i].kind \in {"render", "redirect"}

\* C1: a request to a protected route that the gate resolves as
\* Unauthenticated is answered with the redirect to /login and nothing else,
\* its handler is never run and it invokes no note store operation: the
\* handlers that ran or are waiting to run are exactly the requests the gate
\* resolved to a user.
C1_UnauthenticatedRedirected ==
  /\ (last.step = "gate" /\ ~last.ok) =>
        /\ last.writes = LoginRedirect
        /\ ~last.next
        /\ last.ops = <<>>
  /\ ran + InFlightTotal = authed

C1_Witness ==
  /\ last.step = "gate"
  /\ last.route = "/note/toggle"
  /\ ~last.ok
  /\ last.writes = LoginRedirect
  /\ ran >= 1

\* C2: when the session holds a string user_id for which the users table has
\* no row, the request is redirected to /login and its handler does not run.
C2_UnknownPrincipalRejected ==
  (/\ last.step = "gate"
   /\ AssertString(StoreGet(last.cookie).Values).ok
   /\ LookupByAuthId(users, AssertString(StoreGet(last.cookie).Values).val).err # NoErr)
  => (last.writes = LoginRedirect /\ ~last.next)

\* C3: toggles of one note are single flips: after k successful toggles of
\* a note, in any interleaving of the requests, its done flag is its value at
\* first appearance flipped k times, so two toggles restore it and a toggle of
\* one note leaves every other note's flag alone.
C3_ToggleFlipsOnce ==
  \A id \in DOMAIN notes :
    notes[id].done = IF toggles[id] % 2 = 1 THEN ~initDone[id] ELSE initDone[id]

C3_Witness ==
  /\ raced
  /\ \E id \in DOMAIN notes : toggles[id] = 2 /\ notes[id].done /\ initDone[id]

\* C4: the users table never holds two rows with the same auth_id, whatever
\* the interleaving of callers that each call Exists and then Add only when
\* Exists returned false.
C4_OneRowPerAuthId ==
  \A i, j \in 1..Len(users) : users[i].auth_id = users[j].auth_id => i = j

\* C5: after a delete of id was answered as a success, Get(id) fails with
\* NotFoundError, and another Delete(id) fails with NotFoundError as well
\* and leaves the notes table as it is; the handler answers that second
\* delete with the generic failure and logs the NotFoundError.
C5_DeleteThenNotFound ==
  /\ \A id \in deleted :
        /\ NoteGet(DB, id, FALSE).err = "NotFoundError"
        /\ NoteDelete(DB, id, FALSE).err = "NotFoundError"
        /\ NoteDelete(DB, id, FALSE).db = DB
  /\ (/\ last.step = "handler"
      /\ last.route = "/note/{id}/delete"
      /\ last.id \in deleted
      /\ last.writes # <<Redirect("/", 303)>>
      /\ last.err # "StoreUnavailableError")
     => (last.err = "NotFoundError" /\ last.writes = GenericFailure
         /\ last.logged = <<"NotFoundError">>)

C5_Witness ==
  /\ last.step = "handler"
  /\ last.route = "/note/{id}/delete"
  /\ last.id \in deleted
  /\ last.err = "NotFoundError"
  /\ notes # <<>>

\* The rows of the last step are the notes created at t or later, each once,
\* most recent first.
C6_Since(t) ==
  /\ RowSet(last.rows) = {id \in DOMAIN notes : notes[id].created_at >= t}
  /\ Len(last.rows) = Cardinality(RowSet(last.rows))
  /\ \A i, j \in 1..Len(last.rows) :
        i < j => notes[last.rows[i]].created_at >= notes[last.rows[j]].created_at

C8_BadSessionUnauthenticated ==
  (/\ last.step = "gate"
   /\ \/ StoreGet(last.cookie).err # NoErr
      \/ ~AssertString(StoreGet(last.cookie).Values).ok)
  => (~last.ok /\ last.writes = LoginRedirect /\ ~last.next /\ last.logged = <<>>)

C8_Witness ==
  /\ last.step = "gate"
  /\ last.cookie = "malformed"
  /\ StoreGet(last.cookie).err # NoErr
  /\ last.writes = LoginRedirect

\* C9: a user repository call that was in flight when its request's context
\* was cancelled returns an error.
C9_CancelledCallAborts ==
  \A c \in Callers :
    (caller[c].pc \in {"checked", "added", "got"} /\ caller[c].hit) => caller[c].err # NoErr

\* C10 as stated: every handler behind the gate calls exactly one note
\* store operation.
C10_ExactlyOneStoreCall ==
  last.step = "handler" => Len(last.ops) = 1

\* C10 amended: a handler calls at most one note store operation; the
\* handlers of /, /t/{date}, /search, /note, /note/{id}/delete and
\* /note/toggle have called exactly one whenever they render or redirect,
\* and those of /submit and /public/ call none.
C10_AtMostOneStoreCall ==
  last.step = "handler" =>
     /\ Len(last.ops) <= 1
     /\ (last.route \in StoreRoutes /\ Answered(last.writes)) => Len(last.ops) = 1
     /\ last.route \in {"/submit", "/public/"} => last.ops = <<>>

C10_Witness ==
  /\ last.step = "handler"
  /\ last.route = "/submit"
  /\ last.writes = <<Render("submit")>>
  /\ last.ops = <<>>

====
